---- MODULE Spec2Model ----
(***************************************************************************)
(* A model of the message bus of nautilus_core/common:                     *)
(*   src/nautilus_core/common/src/msgbus.rs      (MessageBus, is_matching) *)
(*   src/nautilus_core/common/src/ffi/msgbus.rs  (the C interface)         *)
(*                                                                         *)
(* A string is a sequence of characters; a character is written as a       *)
(* one-element TLA+ string, except the two-byte character U+00E9.          *)
(***************************************************************************)
EXTENDS Integers, Sequences, FiniteSets, TLC

VARIABLES
    bus,        \* the MessageBus: subscriptions, patterns, endpoints, correlation_index
    call,       \* the last call made on the bus, with its arguments and its result
    requested,  \* history: ids with a successful request_handler and no response_handler since
    handler_at_request, \* history: for each such id, the handler its endpoint then held
    box,        \* the Box<MessageBus> behind a MessageBus_API: "live", "dropped" or "aborted"
    m_topic,    \* is_matching: the topic argument
    m_pattern,  \* is_matching: the pattern argument
    m_result    \* is_matching: the outcome of the call, once made

vars == <<bus, call, requested, handler_at_request, box, m_topic, m_pattern, m_result>>

(***************************************************************************)
(* Strings                                                                 *)
(***************************************************************************)

\* The longest topic or pattern drawn exhaustively from the alphabet.
MaxLen == 3

\* msgbus.rs:289: the matching table is [[false; 256]; 256].
TableSize == 256

EAcute == "U+00E9"

Alphabet == {"a", "b", "*", "?", EAcute}

\* char::len_utf8: the number of bytes of a character in a Rust string.
len_utf8(c) == IF c = EAcute THEN 2 ELSE 1

\* str::len: the length of a string in bytes, not in characters.
len(s) == Cardinality(UNION {{i} \X (1..len_utf8(s[i])) : i \in DOMAIN s})

Repeat(c, k) == [i \in 1..k |-> c]

StringsUpTo(k) == UNION {[1..l -> Alphabet] : l \in 0..k}

(***************************************************************************)
(* is_matching (msgbus.rs:288-312)                                         *)
(*                                                                         *)
(* The table is the set of its cells that hold true, with a flag for an    *)
(* index outside the 256 x 256 array, on which the Rust code panics.       *)
(***************************************************************************)

InBounds(i, j) == i < TableSize /\ j < TableSize

\* let mut table = [[false; 256]; 256]; table[0][0] = true;
NewTable == [panic |-> FALSE, cells |-> {<<0, 0>>}]

\* table[i][j] as a value (the index is in bounds wherever this is used)
Read(table, i, j) == <<i, j>> \in table.cells

\* table[i][j] = v
Write(table, i, j, v) ==
    IF table.panic \/ ~InBounds(i, j)
    THEN [table EXCEPT !.panic = TRUE]
    ELSE [table EXCEPT !.cells = IF v THEN @ \cup {<<i, j>>} ELSE @ \ {<<i, j>>}]

\* Each for_each below runs its body for the indices lo .. hi-1 in increasing
\* order; the range is split in two only to keep the evaluation shallow, and
\* nothing runs after a panic.

\* |(j, c)| if c == '*' { table[0][j + 1] = table[0][j]; }
first_row_body(table, pattern, j) ==
    IF pattern[j + 1] = "*"
    THEN Write(table, 0, j + 1, Read(table, 0, j))
    ELSE table

\* pattern.chars().enumerate().for_each(..): the first row of the table
RECURSIVE first_row(_, _, _, _)
first_row(table, pattern, lo, hi) ==
    IF lo >= hi THEN table
    ELSE IF hi = lo + 1 THEN first_row_body(table, pattern, lo)
    ELSE LET mid == (lo + hi) \div 2
             half == first_row(table, pattern, lo, mid)
         IN  IF half.panic THEN half ELSE first_row(half, pattern, mid, hi)

\* |(j, pc)| if pc == '*' {..} else if pc == '?' || tc == pc {..}
inner_body(table, i, tc, pattern, j) ==
    LET pc == pattern[j + 1]
    IN  IF pc = "*"
        THEN Write(table, i + 1, j + 1, Read(table, i, j + 1) \/ Read(table, i + 1, j))
        ELSE IF pc = "?" \/ tc = pc
        THEN Write(table, i + 1, j + 1, Read(table, i, j))
        ELSE table

\* the inner pattern.chars().enumerate().for_each(..), for topic character tc at index i
RECURSIVE inner_loop(_, _, _, _, _, _)
inner_loop(table, i, tc, pattern, lo, hi) ==
    IF lo >= hi THEN table
    ELSE IF hi = lo + 1 THEN inner_body(table, i, tc, pattern, lo)
    ELSE LET mid == (lo + hi) \div 2
             half == inner_loop(table, i, tc, pattern, lo, mid)
         IN  IF half.panic THEN half ELSE inner_loop(half, i, tc, pattern, mid, hi)

\* the outer topic.chars().enumerate().for_each(..)
RECURSIVE outer_loop(_, _, _, _, _)
outer_loop(table, topic, pattern, lo, hi) ==
    IF lo >= hi THEN table
    ELSE IF hi = lo + 1
    THEN inner_loop(table, lo, topic[lo + 1], pattern, 0, Len(pattern))
    ELSE LET mid == (lo + hi) \div 2
             half == outer_loop(table, topic, pattern, lo, mid)
         IN  IF half.panic THEN half ELSE outer_loop(half, topic, pattern, mid, hi)

\* The whole call: the value of table[n][m], or that an index was out of bounds.
is_matching_outcome(topic, pattern) ==
    LET m == len(pattern)
        n == len(topic)
        row0 == first_row(NewTable, pattern, 0, Len(pattern))
        table == outer_loop(row0, topic, pattern, 0, Len(topic))
    IN  IF table.panic \/ ~InBounds(n, m)
        THEN [panicked |-> TRUE, value |-> FALSE]
        ELSE [panicked |-> FALSE, value |-> Read(table, n, m)]

is_matching_panics(topic, pattern) == is_matching_outcome(topic, pattern).panicked

\* The value is_matching returns (when it returns).
is_matching(topic, pattern) == is_matching_outcome(topic, pattern).value

(***************************************************************************)
(* Option<T>, and the unit type ()                                         *)
(***************************************************************************)

Unit == <<>>

None == [some |-> FALSE]

Some(x) == [some |-> TRUE, value |-> x]

\* Option::unwrap_or
unwrap_or(o, default) == IF o.some THEN o.value ELSE default

(***************************************************************************)
(* Subscription (msgbus.rs:31-73)                                          *)
(*                                                                         *)
(* A MessageHandler is modelled by its handler_id, the only part of it the *)
(* bus reads.                                                              *)
(***************************************************************************)

\* Subscription::new
Subscription_new(topic, handler, priority) ==
    [handler |-> handler, topic |-> topic, priority |-> unwrap_or(priority, 0)]

\* impl PartialEq (and Hash): the topic and the handler's id, not the priority
eq(self, other) == self.topic = other.topic /\ self.handler = other.handler

\* An Ord with the comparison turned round: other.priority.cmp(&self.priority).
cmp_ge(self, other) == self.priority >= other.priority

\* impl Ord: self.priority.cmp(&other.priority), here as "self <= other"
cmp_le(self, other) == self.priority <= other.priority

\* Vec::sort: a stable sort under Ord; x is put behind every element it is not below.
RECURSIVE sort_insert(_, _)
sort_insert(sorted, x) ==
    IF sorted = <<>> THEN <<x>>
    ELSE LET last == sorted[Len(sorted)]
         IN  IF cmp_le(last, x)
             THEN Append(sorted, x)
             ELSE Append(sort_insert(SubSeq(sorted, 1, Len(sorted) - 1), x), last)

RECURSIVE sort(_)
sort(v) ==
    IF v = <<>> THEN <<>>
    ELSE sort_insert(sort(SubSeq(v, 1, Len(v) - 1)), v[Len(v)])

Range(v) == {v[i] : i \in DOMAIN v}

\* The orders in which a hash set or map may hand out its elements.
IterationOrders(set) ==
    {v \in [1..Cardinality(set) -> set] : \A i, j \in DOMAIN v : v[i] = v[j] => i = j}

(***************************************************************************)
(* HashMap<Subscription, V>: a function on subscriptions, no two of them   *)
(* equal under eq.  HashMap<Ustr, V> and HashMap<UUID4, V> are functions.  *)
(***************************************************************************)

contains_key(map, key) == \E k \in DOMAIN map : eq(k, key)

\* HashMap::insert keeps the key already there and replaces its value.
insert(map, key, value) ==
    IF contains_key(map, key)
    THEN [k \in DOMAIN map |-> IF eq(k, key) THEN value ELSE map[k]]
    ELSE [k \in DOMAIN map \cup {key} |-> IF k = key THEN value ELSE map[k]]

remove(map, key) == [k \in {x \in DOMAIN map : ~eq(x, key)} |-> map[k]]

put(map, key, value) == [k \in DOMAIN map \cup {key} |-> IF k = key THEN value ELSE map[k]]

delete(map, key) == [k \in DOMAIN map \ {key} |-> map[k]]

(***************************************************************************)
(* MessageBus (msgbus.rs:97-281); self is the record of its four tables.   *)
(***************************************************************************)

\* MessageBus::new
new ==
    [subscriptions |-> <<>>, patterns |-> <<>>,
     endpoints |-> <<>>, correlation_index |-> <<>>]

\* endpoints(): the registered names, as a bag (the Vec's order is the map's)
endpoints(self) == [e \in DOMAIN self.endpoints |-> 1]

\* topics(): one topic per subscription, as a bag (the Vec's order is the map's)
topics(self) ==
    [t \in {sub.topic : sub \in DOMAIN self.subscriptions} |->
        Cardinality({sub \in DOMAIN self.subscriptions : sub.topic = t})]

\* matching_handlers: the handlers of the subscriptions whose topic matches the pattern
matching_handlers(self, pattern) ==
    {sub.handler : sub \in {x \in DOMAIN self.subscriptions : is_matching(x.topic, pattern)}}

\* A has_subscribers that compares the topics with the pattern for equality.
has_subscribers_by_equality(self, pattern) ==
    \E sub \in DOMAIN self.subscriptions : sub.topic = pattern

has_subscribers(self, pattern) == matching_handlers(self, pattern) # {}

is_subscribed(self, topic, handler) ==
    contains_key(self.subscriptions, Subscription_new(topic, handler, None))

is_pending_response(self, request_id) == request_id \in DOMAIN self.correlation_index

is_registered(self, endpoint) == endpoint \in DOMAIN self.endpoints

\* A register that hands the new handler to the requests pending on the old one.
register_rebinding(self, endpoint, handler) ==
    [self EXCEPT
        !.endpoints = [e \in DOMAIN @ \cup {endpoint} |->
                        IF e = endpoint THEN handler ELSE @[e]],
        !.correlation_index = [id \in DOMAIN @ |->
                        IF endpoint \in DOMAIN self.endpoints
                                /\ @[id] = self.endpoints[endpoint]
                        THEN handler ELSE @[id]]]

\* A register that keeps the handler already registered (entry().or_insert()).
register_keeping(self, endpoint, handler) ==
    IF endpoint \in DOMAIN self.endpoints
    THEN self
    ELSE [self EXCEPT !.endpoints = put(@, endpoint, handler)]

register(self, endpoint, handler) ==
    [self EXCEPT !.endpoints = put(@, endpoint, handler)]

\* A deregister that also unsubscribes the handler it removes.
deregister_unsubscribing(self, endpoint) ==
    LET gone == IF endpoint \in DOMAIN self.endpoints
                THEN {sub \in DOMAIN self.subscriptions :
                         sub.handler = self.endpoints[endpoint]}
                ELSE {}
    IN  [self EXCEPT
            !.endpoints = [e \in DOMAIN @ \ {endpoint} |-> @[e]],
            !.subscriptions = [k \in DOMAIN @ \ gone |-> @[k]]]

\* A deregister that also forgets the requests pending on the endpoint's handler.
deregister_dropping_pending(self, endpoint) ==
    LET gone == IF endpoint \in DOMAIN self.endpoints
                THEN {id \in DOMAIN self.correlation_index :
                         self.correlation_index[id] = self.endpoints[endpoint]}
                ELSE {}
    IN  [self EXCEPT
            !.endpoints = [e \in DOMAIN @ \ {endpoint} |-> @[e]],
            !.correlation_index = [id \in DOMAIN @ \ gone |-> @[id]]]

deregister(self, endpoint) ==
    [self EXCEPT !.endpoints = delete(@, endpoint)]

\* A subscribe that enters its topic in the pattern cache when it is not a key yet.
subscribe_caching(self, topic, handler, priority) ==
    LET sub == Subscription_new(topic, handler, priority)
        matches == {pattern \in DOMAIN self.patterns \cup {topic} :
                        is_matching(topic, pattern)}
    IN  IF contains_key(self.subscriptions, sub)
        THEN self
        ELSE [self EXCEPT
                !.patterns = [pattern \in DOMAIN @ \cup {topic} |->
                                LET subs == IF pattern \in DOMAIN @ THEN @[pattern] ELSE <<>>
                                IN  IF pattern \in matches
                                    THEN sort(Append(subs, sub))
                                    ELSE subs],
                !.subscriptions = insert(@, sub, matches)]

\* A subscribe that replaces the subscription already held on the key.
subscribe_replacing(self, topic, handler, priority) ==
    LET sub == Subscription_new(topic, handler, priority)
    IN  [self EXCEPT !.subscriptions =
            [k \in {x \in DOMAIN @ : ~eq(x, sub)} \cup {sub} |-> {}]]

\* subscribe.  The Vec of matched patterns stored with the subscription is never
\* read by the bus; it is kept as the set of its elements.
subscribe(self, topic, handler, priority) ==
    LET sub == Subscription_new(topic, handler, priority)
        matches == {pattern \in DOMAIN self.patterns : is_matching(topic, pattern)}
    IN  IF contains_key(self.subscriptions, sub)
        THEN self
        ELSE [self EXCEPT
                !.patterns = [pattern \in DOMAIN @ |->
                                IF pattern \in matches
                                THEN sort(Append(@[pattern], sub))
                                ELSE @[pattern]],
                !.subscriptions = insert(@, sub, matches)]

\* An unsubscribe that removes every subscription on the topic.
unsubscribe_topic(self, topic, handler) ==
    [self EXCEPT !.subscriptions = [k \in {x \in DOMAIN @ : x.topic # topic} |-> @[k]]]

\* An unsubscribe whose key comparison takes the priority in.
unsubscribe_same_priority(self, topic, handler) ==
    LET sub == Subscription_new(topic, handler, None)
    IN  [self EXCEPT !.subscriptions =
            [k \in {x \in DOMAIN @ : ~(eq(x, sub) /\ x.priority = sub.priority)} |-> @[k]]]

unsubscribe(self, topic, handler) ==
    [self EXCEPT !.subscriptions = remove(@, Subscription_new(topic, handler, None))]

get_endpoint(self, endpoint) ==
    IF endpoint \in DOMAIN self.endpoints THEN Some(self.endpoints[endpoint]) ELSE None

\* A request_handler that drops the id when the endpoint is not registered.
request_handler_clearing(self, endpoint, request_id) ==
    IF endpoint \in DOMAIN self.endpoints
    THEN [self |-> [self EXCEPT !.correlation_index =
                        [id \in DOMAIN @ \cup {request_id} |->
                            IF id = request_id THEN self.endpoints[endpoint] ELSE @[id]]],
          ret |-> Some(self.endpoints[endpoint])]
    ELSE [self |-> [self EXCEPT !.correlation_index =
                        [id \in DOMAIN @ \ {request_id} |-> @[id]]],
          ret |-> None]

\* request_handler: the bus after the call, and what the call returns
request_handler(self, endpoint, request_id) ==
    IF endpoint \in DOMAIN self.endpoints
    THEN [self |-> [self EXCEPT !.correlation_index =
                        put(@, request_id, self.endpoints[endpoint])],
          ret |-> Some(self.endpoints[endpoint])]
    ELSE [self |-> self, ret |-> None]

\* A response_handler that reads the entry (HashMap::get) and leaves it in the index.
response_handler_peek(self, correlation_id) ==
    [self |-> self,
     ret |-> IF correlation_id \in DOMAIN self.correlation_index
             THEN Some(self.correlation_index[correlation_id])
             ELSE None]

\* response_handler: HashMap::remove returns the value removed, if any
response_handler(self, correlation_id) ==
    [self |-> [self EXCEPT !.correlation_index = delete(@, correlation_id)],
     ret |-> IF correlation_id \in DOMAIN self.correlation_index
             THEN Some(self.correlation_index[correlation_id])
             ELSE None]

\* A unique_subs that takes every subscription, whatever its topic.
unique_subs_unfiltered(self, pattern) == {DOMAIN self.subscriptions}

\* A unique_subs filled from the cached lists alone, without the scan of the subscriptions.
unique_subs_cached_only(self, pattern) ==
    LET cached == {sub \in UNION {Range(self.patterns[p]) : p \in DOMAIN self.patterns} :
                      is_matching(sub.topic, pattern)}
    IN  {x \in SUBSET cached :
            /\ \A c \in cached : \E y \in x : eq(c, y)
            /\ \A y, z \in x : eq(y, z) => y = z}

\* The contents unique_subs may end with: every subscription whose topic matches,
\* and of each further key found in the cached lists one subscription (a HashSet
\* keeps the element it already holds).
unique_subs(self, pattern) ==
    LET direct == {sub \in DOMAIN self.subscriptions : is_matching(sub.topic, pattern)}
        cached == {sub \in UNION {Range(self.patterns[p]) : p \in DOMAIN self.patterns} :
                      is_matching(sub.topic, pattern)}
        extra == {c \in cached : \A d \in direct : ~eq(c, d)}
    IN  {direct \cup pick : pick \in
            {x \in SUBSET extra :
                /\ \A c \in extra : \E y \in x : eq(c, y)
                /\ \A y, z \in x : eq(y, z) => y = z}}

\* matching_subscriptions: the Vecs the call may return.  unique_subs is a HashSet
\* built anew by each call; its iteration order is any, and the sort is stable.
matching_subscriptions(self, pattern) ==
    {sort(v) : v \in UNION {IterationOrders(u) : u \in unique_subs(self, pattern)}}

NotCalled == [panicked |-> FALSE, value |-> FALSE, called |-> FALSE]

(***************************************************************************)
(* The matcher on its own: every topic and pattern up to MaxLen, and the   *)
(* long ones around the size of the table.                                 *)
(***************************************************************************)

LongLengths == {TableSize - 1, TableSize}

LongStrings == {Repeat(c, k) : c \in {"a", "*"}, k \in LongLengths}

ShortProbes == {<<>>, <<"a">>, <<"*">>, <<"?">>}

MatchInputs ==
    (StringsUpTo(MaxLen) \X StringsUpTo(MaxLen))
        \cup (LongStrings \X ShortProbes) \cup (ShortProbes \X LongStrings)
        \cup {<<Repeat("a", k), Repeat("a", l)>> : k \in LongLengths, l \in LongLengths}

NoCall == [op |-> "new"]

InitMatch ==
    /\ bus = new
    /\ call = NoCall
    /\ requested = {}
    /\ handler_at_request = <<>>
    /\ box = "live"
    /\ \E io \in MatchInputs : m_topic = io[1] /\ m_pattern = io[2]
    /\ m_result = NotCalled

IsMatchingCall ==
    /\ ~m_result.called
    /\ LET r == is_matching_outcome(m_topic, m_pattern)
       IN  m_result' = [panicked |-> r.panicked, value |-> r.value, called |-> TRUE]
    /\ UNCHANGED <<bus, call, requested, handler_at_request, box, m_topic, m_pattern>>

NextMatch == IsMatchingCall

SpecMatch == InitMatch /\ [][NextMatch]_vars

(***************************************************************************)
(* The bus under every sequence of calls.  Each call is an action over the *)
(* sets its arguments are drawn from.                                      *)
(***************************************************************************)

\* The highest priority passed to subscribe (a u8).
MaxPriority == 1

Handlers == {"1", "2"}

\* Topics subscribed to: a literal one, and one that holds a wildcard character.
Topics == {<<"a">>, <<"*">>}

\* Patterns asked for.
Patterns == {<<"a">>, <<"*">>, <<"?">>, <<"b">>}

Endpoints == {"e1", "e2"}

RequestIds == {"u1", "u2"}

Priorities == {None} \cup {Some(p) : p \in 0..MaxPriority}

Init ==
    /\ bus = new
    /\ call = NoCall
    /\ requested = {}
    /\ handler_at_request = <<>>
    /\ box = "live"
    /\ m_topic = <<>>
    /\ m_pattern = <<>>
    /\ m_result = NotCalled

matcher == <<m_topic, m_pattern, m_result>>

\* A call records, with its arguments and what it returns, what it found under its
\* key when it was made: `old` is the handler HashMap::insert or HashMap::remove
\* hands back, `found` whether the subscription's key was held.

Register(endpoints_, handlers_) ==
    \E endpoint \in endpoints_, handler \in handlers_ :
        /\ bus' = register(bus, endpoint, handler)
        /\ call' = [op |-> "register", endpoint |-> endpoint, handler |-> handler,
                    old |-> get_endpoint(bus, endpoint)]
        /\ UNCHANGED <<requested, handler_at_request, box, matcher>>

Deregister(endpoints_) ==
    \E endpoint \in endpoints_ :
        /\ bus' = deregister(bus, endpoint)
        /\ call' = [op |-> "deregister", endpoint |-> endpoint,
                    old |-> get_endpoint(bus, endpoint)]
        /\ UNCHANGED <<requested, handler_at_request, box, matcher>>

Subscribe(topics_, handlers_) ==
    \E topic \in topics_, handler \in handlers_, priority \in Priorities :
        /\ bus' = subscribe(bus, topic, handler, priority)
        /\ call' = [op |-> "subscribe", topic |-> topic, handler |-> handler,
                    priority |-> priority,
                    found |-> is_subscribed(bus, topic, handler), ret |-> Unit]
        /\ UNCHANGED <<requested, handler_at_request, box, matcher>>

Unsubscribe(topics_, handlers_) ==
    \E topic \in topics_, handler \in handlers_ :
        /\ bus' = unsubscribe(bus, topic, handler)
        /\ call' = [op |-> "unsubscribe", topic |-> topic, handler |-> handler,
                    found |-> is_subscribed(bus, topic, handler)]
        /\ UNCHANGED <<requested, handler_at_request, box, matcher>>

RequestHandler(endpoints_, ids_) ==
    \E endpoint \in endpoints_, request_id \in ids_ :
        LET r == request_handler(bus, endpoint, request_id)
        IN  /\ bus' = r.self
            /\ call' = [op |-> "request_handler", endpoint |-> endpoint,
                        request_id |-> request_id, ret |-> r.ret]
            /\ requested' = IF is_registered(bus, endpoint)
                            THEN requested \cup {request_id}
                            ELSE requested
            /\ handler_at_request' = IF is_registered(bus, endpoint)
                                     THEN put(handler_at_request, request_id,
                                              bus.endpoints[endpoint])
                                     ELSE handler_at_request
            /\ UNCHANGED <<box, matcher>>

ResponseHandler(ids_) ==
    \E correlation_id \in ids_ :
        LET r == response_handler(bus, correlation_id)
        IN  /\ bus' = r.self
            /\ call' = [op |-> "response_handler", correlation_id |-> correlation_id,
                        ret |-> r.ret]
            /\ requested' = requested \ {correlation_id}
            /\ handler_at_request' = delete(handler_at_request, correlation_id)
            /\ UNCHANGED <<box, matcher>>

\* A matching_subscriptions that enters what it returns in the pattern cache.
MatchingSubscriptions_caching(patterns_) ==
    \E pattern \in patterns_ :
        \E ret \in matching_subscriptions(bus, pattern) :
            /\ bus' = [bus EXCEPT !.patterns = put(@, pattern, ret)]
            /\ call' = [op |-> "matching_subscriptions", pattern |-> pattern, ret |-> ret]
            /\ UNCHANGED <<requested, handler_at_request, box, matcher>>

MatchingSubscriptions(patterns_) ==
    \E pattern \in patterns_ :
        \E ret \in matching_subscriptions(bus, pattern) :
            /\ call' = [op |-> "matching_subscriptions", pattern |-> pattern, ret |-> ret]
            /\ UNCHANGED <<bus, requested, handler_at_request, box, matcher>>

\* The queries take &self: the bus is read, and what is returned is recorded.

EndpointsCall ==
    /\ call' = [op |-> "endpoints", ret |-> endpoints(bus)]
    /\ UNCHANGED <<bus, requested, handler_at_request, box, matcher>>

TopicsCall ==
    /\ call' = [op |-> "topics", ret |-> topics(bus)]
    /\ UNCHANGED <<bus, requested, handler_at_request, box, matcher>>

HasSubscribers(patterns_) ==
    \E pattern \in patterns_ :
        /\ call' = [op |-> "has_subscribers", pattern |-> pattern,
                    ret |-> has_subscribers(bus, pattern)]
        /\ UNCHANGED <<bus, requested, handler_at_request, box, matcher>>

IsSubscribed(topics_, handlers_) ==
    \E topic \in topics_, handler \in handlers_ :
        /\ call' = [op |-> "is_subscribed", topic |-> topic, handler |-> handler,
                    ret |-> is_subscribed(bus, topic, handler)]
        /\ UNCHANGED <<bus, requested, handler_at_request, box, matcher>>

IsPendingResponse(ids_) ==
    \E request_id \in ids_ :
        /\ call' = [op |-> "is_pending_response", request_id |-> request_id,
                    ret |-> is_pending_response(bus, request_id)]
        /\ UNCHANGED <<bus, requested, handler_at_request, box, matcher>>

IsRegistered(endpoints_) ==
    \E endpoint \in endpoints_ :
        /\ call' = [op |-> "is_registered", endpoint |-> endpoint,
                    ret |-> is_registered(bus, endpoint)]
        /\ UNCHANGED <<bus, requested, handler_at_request, box, matcher>>

GetEndpoint(endpoints_) ==
    \E endpoint \in endpoints_ :
        /\ call' = [op |-> "get_endpoint", endpoint |-> endpoint,
                    ret |-> get_endpoint(bus, endpoint)]
        /\ UNCHANGED <<bus, requested, handler_at_request, box, matcher>>

\* Publish/subscribe in full, over one endpoint, one handler registered and one request id.
Next ==
    \/ Register({"e1"}, {"1"})
    \/ Deregister({"e1"})
    \/ Subscribe(Topics, Handlers)
    \/ Unsubscribe(Topics, Handlers)
    \/ RequestHandler({"e1"}, {"u1"})
    \/ ResponseHandler({"u1"})
    \/ MatchingSubscriptions(Patterns)
    \/ EndpointsCall
    \/ TopicsCall
    \/ HasSubscribers(Patterns)
    \/ IsSubscribed(Topics, Handlers)
    \/ IsPendingResponse({"u1"})
    \/ IsRegistered({"e1"})
    \/ GetEndpoint({"e1"})

Spec == Init /\ [][Next]_vars

\* Endpoints and request/response in full, over one topic and one subscriber.
NextReqRep ==
    \/ Register(Endpoints, Handlers)
    \/ Deregister(Endpoints)
    \/ Subscribe({<<"a">>}, {"1"})
    \/ Unsubscribe({<<"a">>}, {"1"})
    \/ RequestHandler(Endpoints, RequestIds)
    \/ ResponseHandler(RequestIds)
    \/ MatchingSubscriptions({<<"*">>})
    \/ EndpointsCall
    \/ TopicsCall
    \/ HasSubscribers({<<"*">>})
    \/ IsSubscribed({<<"a">>}, {"1"})
    \/ IsPendingResponse(RequestIds)
    \/ IsRegistered(Endpoints)
    \/ GetEndpoint(Endpoints)

SpecReqRep == Init /\ [][NextReqRep]_vars

(***************************************************************************)
(* Publish/subscribe                                                       *)
(***************************************************************************)

Subscribed == DOMAIN bus.subscriptions

\* C2: a held subscription whose topic matches the pattern is in what
\* matching_subscriptions has returned for that pattern.
C2_MatchingSubscriptionsHoldsEveryMatch ==
    call.op = "matching_subscriptions" =>
        \A sub \in Subscribed :
            is_matching(sub.topic, call.pattern) => \E x \in Range(call.ret) : eq(x, sub)

\* a call has returned a match while a subscription on another topic, which the
\* pattern does not match, is held, after an unsubscribe has taken one away
C2_Witness ==
    /\ call.op = "matching_subscriptions"
    /\ call.ret # <<>>
    /\ \E sub \in Subscribed : ~is_matching(sub.topic, call.pattern)
    /\ Cardinality(Subscribed) < Cardinality(Topics \X Handlers)

\* C3: subscribe on a key that is already subscribed changes nothing of the bus,
\* whatever priority it passes.
C3_DuplicateSubscribeIsNoOp ==
    [][(call'.op = "subscribe" /\ is_subscribed(bus, call'.topic, call'.handler))
            => bus' = bus]_vars

\* a subscribe has been made on a held key with another priority than the stored one,
\* with an endpoint registered and a request pending
C3_Witness ==
    /\ call.op = "subscribe"
    /\ \E sub \in Subscribed :
        /\ eq(sub, Subscription_new(call.topic, call.handler, call.priority))
        /\ sub.priority # unwrap_or(call.priority, 0)
    /\ DOMAIN bus.endpoints # {}
    /\ DOMAIN bus.correlation_index # {}

\* C9: two calls of matching_subscriptions in a row with the same pattern return the
\* same sequence.
C9_MatchingSubscriptionsDeterministic ==
    [][(call.op = "matching_subscriptions" /\ call'.op = "matching_subscriptions"
            /\ call'.pattern = call.pattern)
        => call'.ret = call.ret]_vars

\* What does hold of C9: the results differ only in the order of equal priorities.
MatchingSubscriptionsSameUpToTies ==
    \A pattern \in Patterns : \A r1, r2 \in matching_subscriptions(bus, pattern) :
        /\ Range(r1) = Range(r2)
        /\ Len(r1) = Len(r2)
        /\ \A i \in DOMAIN r1 : r1[i].priority = r2[i].priority

HasWildcard(s) == \E i \in DOMAIN s : s[i] \in {"*", "?"}

OthersShare(self, topic) == \E sub \in DOMAIN self.subscriptions : sub.topic = topic

\* what unsubscribe(topic, handler) must leave of the subscriptions
WithoutKey(self, topic, handler) ==
    {sub \in DOMAIN self.subscriptions : ~(sub.topic = topic /\ sub.handler = handler)}

\* subscribe(topic, handler, _) has just been followed by unsubscribe(topic, handler)
SubscribeThenUnsubscribe ==
    /\ call.op = "subscribe"
    /\ call'.op = "unsubscribe"
    /\ call'.topic = call.topic
    /\ call'.handler = call.handler

\* C10, as claimed: after subscribe(topic, handler, priority) and then
\* unsubscribe(topic, handler) the key is not subscribed, every other subscription
\* is in place and, if no other subscription is on the topic, topics() does not
\* list it and has_subscribers(topic) is false.
C10_UnsubscribeRemovesAllTrace ==
    [][SubscribeThenUnsubscribe =>
        LET topic == call'.topic
            handler == call'.handler
        IN  /\ ~is_subscribed(bus', topic, handler)
            /\ DOMAIN bus'.subscriptions = WithoutKey(bus, topic, handler)
            /\ ~OthersShare(bus', topic) =>
                    /\ topic \notin DOMAIN topics(bus')
                    /\ ~has_subscribers(bus', topic)]_vars

\* C10, amended: has_subscribers(topic) is false if moreover the topic holds no
\* wildcard character.
C10_UnsubscribeRemovesAllTraceOfLiteralTopic ==
    [][SubscribeThenUnsubscribe =>
        LET topic == call'.topic
            handler == call'.handler
        IN  /\ ~is_subscribed(bus', topic, handler)
            /\ DOMAIN bus'.subscriptions = WithoutKey(bus, topic, handler)
            /\ ~OthersShare(bus', topic) =>
                    /\ topic \notin DOMAIN topics(bus')
                    /\ ~HasWildcard(topic) => ~has_subscribers(bus', topic)]_vars

\* an unsubscribe has removed the last subscription on a literal topic, leaving one
\* on another topic, subscribed with a priority other than 0
C10_Witness ==
    /\ call.op = "unsubscribe"
    /\ ~HasWildcard(call.topic)
    /\ ~OthersShare(bus, call.topic)
    /\ \E sub \in Subscribed : sub.priority # 0

(***************************************************************************)
(* Request/response                                                        *)
(***************************************************************************)

\* C4: an id is pending exactly when a request_handler call made for it on a
\* registered endpoint has not been followed by a response_handler call for it.
C4_PendingIffRequestedAndNotAnswered ==
    \A id \in RequestIds : is_pending_response(bus, id) <=> id \in requested

\* an id is still pending after its endpoint was deregistered and a response was
\* taken for another id
C4_Witness ==
    /\ call.op = "response_handler"
    /\ \E id \in requested : id # call.correlation_id /\ is_pending_response(bus, id)
    /\ DOMAIN bus.endpoints = {}
    /\ Subscribed # {}

\* C5: response_handler returns the stored handler of a pending id, none for any
\* other id, and in both cases leaves the id not pending.
C5_ResponseHandlerAtMostOnce ==
    [][call'.op = "response_handler" =>
        LET id == call'.correlation_id
        IN  /\ id \in requested =>
                /\ is_pending_response(bus, id)
                /\ call'.ret = Some(bus.correlation_index[id])
            /\ id \notin requested => call'.ret = None
            /\ ~is_pending_response(bus', id)]_vars

\* a response has been taken for a pending id while another id stays pending
C5_Witness ==
    /\ call.op = "response_handler"
    /\ call.ret # None
    /\ ~is_pending_response(bus, call.correlation_id)
    /\ requested # {}

\* C6: request_handler on an endpoint that is not registered returns none and leaves
\* the bus as it was; on a registered one it returns the endpoint's handler and the
\* id is pending.
C6_RequestHandlerOnUnregisteredIsNoOp ==
    [][call'.op = "request_handler" =>
        IF is_registered(bus, call'.endpoint)
        THEN /\ call'.ret = Some(bus.endpoints[call'.endpoint])
             /\ is_pending_response(bus', call'.request_id)
        ELSE /\ call'.ret = None
             /\ bus' = bus]_vars

\* a request on an unregistered endpoint has returned none for an id that was, and
\* still is, pending, with a subscription held
C6_Witness ==
    /\ call.op = "request_handler"
    /\ call.ret = None
    /\ is_pending_response(bus, call.request_id)
    /\ Subscribed # {}

(***************************************************************************)
(* The reference glob match: `*` matches zero or more of any character,    *)
(* `?` exactly one, every other character only itself.                     *)
(***************************************************************************)

RECURSIVE GlobMatch(_, _)
GlobMatch(topic, pattern) ==
    IF pattern = <<>> THEN topic = <<>>
    ELSE IF Head(pattern) = "*"
    THEN GlobMatch(topic, Tail(pattern))
            \/ (topic # <<>> /\ GlobMatch(Tail(topic), pattern))
    ELSE /\ topic # <<>>
         /\ Head(pattern) = "?" \/ Head(pattern) = Head(topic)
         /\ GlobMatch(Tail(topic), Tail(pattern))

Bounded(s) == Len(s) <= MaxLen

SingleByte(s) == \A i \in DOMAIN s : len_utf8(s[i]) = 1

\* C7: for every topic and pattern of bounded length over the alphabet, is_matching
\* returns what the reference glob match gives.
C7_IsMatchingIsGlobMatch ==
    (m_result.called /\ Bounded(m_topic) /\ Bounded(m_pattern))
        => (~m_result.panicked /\ m_result.value = GlobMatch(m_topic, m_pattern))

\* What does hold of C7: the same over the strings whose characters all take one byte.
IsMatchingIsGlobMatchOnSingleByte ==
    (m_result.called /\ Bounded(m_topic) /\ Bounded(m_pattern)
        /\ SingleByte(m_topic) /\ SingleByte(m_pattern))
        => (~m_result.panicked /\ m_result.value = GlobMatch(m_topic, m_pattern))

\* C8: is_matching is total: whatever the lengths of the topic and the pattern, the
\* call returns a boolean and does not abort.
C8_IsMatchingTotal == m_result.called => ~m_result.panicked

\* What does hold of C8: the call returns when both byte lengths are below TableSize.
IsMatchingTotalBelowTableSize ==
    (m_result.called /\ len(m_topic) < TableSize /\ len(m_pattern) < TableSize)
        => ~m_result.panicked

\* What does hold of C19, and of C7 on equal arguments: a literal string whose
\* characters all take one byte matches itself.
IsMatchingReflexiveOnSingleByteLiterals ==
    (m_result.called /\ m_topic = m_pattern /\ ~HasWildcard(m_topic)
        /\ SingleByte(m_topic) /\ ~m_result.panicked)
        => m_result.value

\* C19: is_matching(s, s) is true for every string s without `*` and `?`, also when
\* s holds characters of more than one byte.
C19_IsMatchingReflexiveOnLiterals ==
    (m_result.called /\ m_topic = m_pattern /\ ~HasWildcard(m_topic)
        /\ ~m_result.panicked)
        => m_result.value

(***************************************************************************)
(* Endpoints                                                               *)
(***************************************************************************)

\* C12: after register(e, h), get_endpoint(e) returns h, e is registered and
\* endpoints() lists e once, whatever was registered under e before; after
\* deregister(e), e is not registered, get_endpoint(e) returns none and endpoints()
\* does not list e.
C12_RegisterIsUpsert ==
    [][LET e == call'.endpoint
       IN  /\ call'.op = "register" =>
                /\ get_endpoint(bus', e) = Some(call'.handler)
                /\ is_registered(bus', e)
                /\ e \in DOMAIN endpoints(bus') /\ endpoints(bus')[e] = 1
           /\ call'.op = "deregister" =>
                /\ ~is_registered(bus', e)
                /\ get_endpoint(bus', e) = None
                /\ e \notin DOMAIN endpoints(bus')]_vars

\* register has replaced the handler of an endpoint that held another one, with the
\* other endpoint registered too
C12_Witness ==
    /\ call.op = "register"
    /\ call.old.some /\ call.old.value # call.handler
    /\ get_endpoint(bus, call.endpoint) = Some(call.handler)
    /\ DOMAIN endpoints(bus) = Endpoints

(***************************************************************************)
(* What each call leaves alone                                             *)
(***************************************************************************)

Queries ==
    {"endpoints", "topics", "has_subscribers", "is_subscribed", "is_registered",
     "is_pending_response", "get_endpoint", "matching_subscriptions"}

\* C13: a query (matching_subscriptions among them) leaves the subscriptions, the
\* pattern cache, the endpoints and the correlation index as they were.
C13_QueriesLeaveBusUnchanged ==
    [][call'.op \in Queries => bus' = bus]_vars

\* matching_subscriptions has returned two subscriptions on a bus that holds an
\* endpoint and a pending request
C13_Witness ==
    /\ call.op = "matching_subscriptions"
    /\ Len(call.ret) = 2
    /\ DOMAIN bus.endpoints # {}
    /\ DOMAIN bus.correlation_index # {}

\* C14: register and deregister change at most the endpoints; subscribe and
\* unsubscribe at most the subscriptions and the pattern cache; request_handler and
\* response_handler at most the correlation index.
C14_MutatorsChangeOwnTableOnly ==
    [][/\ call'.op \in {"register", "deregister"} =>
            /\ bus'.subscriptions = bus.subscriptions
            /\ bus'.patterns = bus.patterns
            /\ bus'.correlation_index = bus.correlation_index
       /\ call'.op \in {"subscribe", "unsubscribe"} =>
            /\ bus'.endpoints = bus.endpoints
            /\ bus'.correlation_index = bus.correlation_index
       /\ call'.op \in {"request_handler", "response_handler"} =>
            /\ bus'.endpoints = bus.endpoints
            /\ bus'.subscriptions = bus.subscriptions
            /\ bus'.patterns = bus.patterns]_vars

\* deregister has removed an endpoint whose handler is subscribed and has a request
\* pending, and both are still there
C14_Witness ==
    /\ call.op = "deregister"
    /\ call.old.some
    /\ \E sub \in Subscribed : sub.handler = call.old.value
    /\ \E id \in DOMAIN bus.correlation_index :
            bus.correlation_index[id] = call.old.value

\* C16: unsubscribe on a key that is not subscribed, and deregister on a name that
\* is not registered, leave the whole bus as it was.
C16_MissingKeyIsNoOp ==
    [][(\/ call'.op = "unsubscribe" /\ ~is_subscribed(bus, call'.topic, call'.handler)
        \/ call'.op = "deregister" /\ ~is_registered(bus, call'.endpoint))
            => bus' = bus]_vars

\* unsubscribe has been called on a key that was not held, while the same topic is
\* subscribed by the other handler and the same handler subscribes the other topic
C16_Witness ==
    /\ call.op = "unsubscribe"
    /\ ~call.found
    /\ \E sub \in Subscribed : sub.topic = call.topic /\ sub.handler # call.handler
    /\ \E sub \in Subscribed : sub.topic # call.topic /\ sub.handler = call.handler

(***************************************************************************)
(* Publish/subscribe: has_subscribers, the result of subscribe, the cache  *)
(* and the order of matching_subscriptions                                 *)
(***************************************************************************)

\* C15: has_subscribers(p) is true exactly when some held subscription has a topic
\* that is_matching says matches p; so it is false while nothing is subscribed.
C15_HasSubscribersIffSomeTopicMatches ==
    /\ \A p \in Patterns :
            has_subscribers(bus, p) <=> \E sub \in Subscribed : is_matching(sub.topic, p)
    /\ call.op = "has_subscribers" =>
            (call.ret <=> \E sub \in Subscribed : is_matching(sub.topic, call.pattern))

\* has_subscribers has returned false for a pattern while subscriptions are held,
\* none of them matching
C15_Witness ==
    /\ call.op = "has_subscribers"
    /\ ~call.ret
    /\ Subscribed # {}

\* C17: the result of a subscribe that inserted differs from the result of a
\* subscribe that found its key held.
C17_SubscribeReportsInsertion ==
    [][(call.op = "subscribe" /\ ~call.found /\ call'.op = "subscribe" /\ call'.found)
        => call'.ret # call.ret]_vars

\* C18: the pattern cache has no key, the pattern list stored with each subscription
\* is empty, and what matching_subscriptions returns is the held subscriptions whose
\* topic matches.
C18_PatternCacheStaysEmpty ==
    /\ DOMAIN bus.patterns = {}
    /\ \A sub \in Subscribed : bus.subscriptions[sub] = {}
    /\ call.op = "matching_subscriptions" =>
            Range(call.ret) = {sub \in Subscribed : is_matching(sub.topic, call.pattern)}

\* every key is subscribed and matching_subscriptions has returned some, not all,
\* of the subscriptions
C18_Witness ==
    /\ call.op = "matching_subscriptions"
    /\ Cardinality(Subscribed) = Cardinality(Topics \X Handlers)
    /\ Range(call.ret) # {} /\ Range(call.ret) # Subscribed

\* C20: what matching_subscriptions returns is in non-decreasing order of priority
\* and holds no key twice; a subscription made without a priority has priority 0.
C20_MatchingSubscriptionsInPriorityOrder ==
    /\ call.op = "matching_subscriptions" =>
            \A i, j \in DOMAIN call.ret :
                i < j => /\ call.ret[i].priority <= call.ret[j].priority
                         /\ ~eq(call.ret[i], call.ret[j])
    /\ (call.op = "subscribe" /\ ~call.found /\ call.priority = None) =>
            \E sub \in Subscribed :
                /\ eq(sub, Subscription_new(call.topic, call.handler, None))
                /\ sub.priority = 0

\* matching_subscriptions has returned three subscriptions or more, of two priorities
C20_Witness ==
    /\ call.op = "matching_subscriptions"
    /\ Len(call.ret) >= 3
    /\ call.ret[1].priority < call.ret[Len(call.ret)].priority

\* C21: every subscription matching_subscriptions(p) has returned is subscribed and
\* has a topic that matches p, and has_subscribers(p) is true exactly when the
\* result is not empty.
C21_MatchingSubscriptionsReturnsNoStale ==
    call.op = "matching_subscriptions" =>
        /\ \A x \in Range(call.ret) :
                /\ x \in Subscribed
                /\ is_subscribed(bus, x.topic, x.handler)
                /\ is_matching(x.topic, call.pattern)
        /\ has_subscribers(bus, call.pattern) <=> call.ret # <<>>

\* matching_subscriptions has returned one subscription for a pattern that is a
\* wildcard, with another key on a matching topic not subscribed
C21_Witness ==
    /\ call.op = "matching_subscriptions"
    /\ HasWildcard(call.pattern)
    /\ Len(call.ret) = 1
    /\ \E topic \in Topics, handler \in Handlers :
            /\ is_matching(topic, call.pattern)
            /\ ~is_subscribed(bus, topic, handler)

\* C22: an id requested and not yet answered is pending, whatever register and
\* deregister have done since, and response_handler returns for it the handler its
\* endpoint held when request_handler was called.
C22_ResponseHandlerReturnsHandlerAtRequest ==
    /\ [](\A id \in DOMAIN handler_at_request : is_pending_response(bus, id))
    /\ [][(call'.op = "response_handler"
                /\ call'.correlation_id \in DOMAIN handler_at_request)
            => call'.ret = Some(handler_at_request[call'.correlation_id])]_vars

\* response_handler has returned a handler that no endpoint holds any more: the
\* endpoint of the request was registered anew or deregistered before the response
C22_Witness ==
    /\ call.op = "response_handler"
    /\ call.ret # None
    /\ \A e \in DOMAIN bus.endpoints : bus.endpoints[e] # call.ret.value
    /\ DOMAIN bus.endpoints # {}

(***************************************************************************)
(* The C interface (ffi/msgbus.rs)                                         *)
(*                                                                         *)
(* A MessageBus_API is a Box<MessageBus>.  Every msgbus_* function takes   *)
(* it by value: the function owns the box and drops it when it returns,    *)
(* while the caller keeps its copy of the pointer.  A call through that    *)
(* pointer after the first one reads freed memory and frees it again; the  *)
(* outcomes kept here are that the memory still holds the bus as the last  *)
(* call left it, that it holds an empty bus, and that the process aborts.  *)
(***************************************************************************)

\* `b as u8` for a bool b
as_u8(b) == IF b THEN 1 ELSE 0

\* &str of a topic: its characters in one string
RECURSIVE as_str(_)
as_str(s) == IF s = <<>> THEN "" ELSE Head(s) \o as_str(Tail(s))

\* PyString::new(py, k): the Python str of the characters of k
PyString_new(k) == <<"str", k>>

\* PyList::new(py, elements) of the strings .into_iter().map(PyString::new).collect()
\* makes of a Vec<&str>, the Vec being a bag as its order is the map's
PyList_new(strs) == <<"list", [o \in {PyString_new(k) : k \in DOMAIN strs} |-> strs[o[2]]]>>

Py_None == "None"

\* handler.py_callback.unwrap().ptr, or Py_None(): the callable is known by its handler's id
callable_or_none(handler) == IF handler.some THEN handler.value ELSE Py_None

\* what msgbus_endpoints returns, on the bus it reads
msgbus_endpoints(self) == PyList_new(endpoints(self))

\* what msgbus_topics returns, on the bus it reads: `bus.endpoints()` (ffi/msgbus.rs:99)
msgbus_topics(self) == PyList_new(endpoints(self))

\* Deref: the MessageBus a call may find behind the caller's pointer
deref == IF box = "live" THEN {bus} ELSE {bus, new}

\* the call runs to its end on the bus it found, and the box is dropped with `bus`
FfiReturn(after, record) ==
    /\ bus' = after
    /\ call' = record
    /\ box' = "dropped"
    /\ UNCHANGED <<requested, handler_at_request, matcher>>

\* the call is made on a dropped box and the process aborts
FfiAbort(name) ==
    /\ box = "dropped"
    /\ box' = "aborted"
    /\ call' = [op |-> "abort", in |-> name]
    /\ UNCHANGED <<bus, requested, handler_at_request, matcher>>

MsgbusEndpoints ==
    /\ box # "aborted"
    /\ \/ \E self \in deref :
            FfiReturn(self, [op |-> "msgbus_endpoints", ret |-> msgbus_endpoints(self)])
       \/ FfiAbort("msgbus_endpoints")

MsgbusTopics ==
    /\ box # "aborted"
    /\ \/ \E self \in deref :
            FfiReturn(self, [op |-> "msgbus_topics", ret |-> msgbus_topics(self)])
       \/ FfiAbort("msgbus_topics")

MsgbusHasSubscribers(patterns_) ==
    /\ box # "aborted"
    /\ \E pattern \in patterns_ :
        \/ \E self \in deref :
            FfiReturn(self, [op |-> "msgbus_has_subscribers", pattern |-> pattern,
                             ret |-> as_u8(has_subscribers(self, pattern))])
        \/ FfiAbort("msgbus_has_subscribers")

MsgbusIsSubscribed(topics_, handlers_) ==
    /\ box # "aborted"
    /\ \E topic \in topics_, handler_id \in handlers_ :
        \/ \E self \in deref :
            FfiReturn(self, [op |-> "msgbus_is_subscribed", topic |-> topic,
                             handler_id |-> handler_id,
                             ret |-> as_u8(is_subscribed(self, topic, handler_id))])
        \/ FfiAbort("msgbus_is_subscribed")

MsgbusIsRegsitered(endpoints_) ==
    /\ box # "aborted"
    /\ \E endpoint \in endpoints_ :
        \/ \E self \in deref :
            FfiReturn(self, [op |-> "msgbus_is_regsitered", endpoint |-> endpoint,
                             ret |-> as_u8(is_registered(self, endpoint))])
        \/ FfiAbort("msgbus_is_regsitered")

MsgbusIsPendingRequest(ids_) ==
    /\ box # "aborted"
    /\ \E request_id \in ids_ :
        \/ \E self \in deref :
            FfiReturn(self, [op |-> "msgbus_is_pending_request", request_id |-> request_id,
                             ret |-> as_u8(is_pending_response(self, request_id))])
        \/ FfiAbort("msgbus_is_pending_request")

MsgbusSubscribe(topics_, handlers_) ==
    /\ box # "aborted"
    /\ \E topic \in topics_, handler_id \in handlers_, priority \in 0..MaxPriority :
        \/ \E self \in deref :
            FfiReturn(subscribe(self, topic, handler_id, Some(priority)),
                      [op |-> "msgbus_subscribe", topic |-> topic,
                       handler_id |-> handler_id, priority |-> priority])
        \/ FfiAbort("msgbus_subscribe")

MsgbusUnsubscribe(topics_, handlers_) ==
    /\ box # "aborted"
    /\ \E topic \in topics_, handler_id \in handlers_ :
        \/ \E self \in deref :
            FfiReturn(unsubscribe(self, topic, handler_id),
                      [op |-> "msgbus_unsubscribe", topic |-> topic,
                       handler_id |-> handler_id])
        \/ FfiAbort("msgbus_unsubscribe")

MsgbusRegister(endpoints_, handlers_) ==
    /\ box # "aborted"
    /\ \E endpoint \in endpoints_, handler_id \in handlers_ :
        \/ \E self \in deref :
            FfiReturn(register(self, endpoint, handler_id),
                      [op |-> "msgbus_register", endpoint |-> endpoint,
                       handler_id |-> handler_id])
        \/ FfiAbort("msgbus_register")

MsgbusDeregister(endpoints_) ==
    /\ box # "aborted"
    /\ \E endpoint \in endpoints_ :
        \/ \E self \in deref :
            FfiReturn(deregister(self, endpoint),
                      [op |-> "msgbus_deregister", endpoint |-> endpoint])
        \/ FfiAbort("msgbus_deregister")

MsgbusGetEndpoint(endpoints_) ==
    /\ box # "aborted"
    /\ \E endpoint \in endpoints_ :
        \/ \E self \in deref :
            FfiReturn(self, [op |-> "msgbus_get_endpoint", endpoint |-> endpoint,
                             ret |-> callable_or_none(get_endpoint(self, endpoint))])
        \/ FfiAbort("msgbus_get_endpoint")

MsgbusGetMatchingCallables(patterns_) ==
    /\ box # "aborted"
    /\ \E pattern \in patterns_ :
        \/ \E self \in deref : \E subs \in matching_subscriptions(self, pattern) :
            FfiReturn(self, [op |-> "msgbus_get_matching_callables", pattern |-> pattern,
                             ret |-> [i \in DOMAIN subs |-> subs[i].handler]])
        \/ FfiAbort("msgbus_get_matching_callables")

MsgbusRequestHandler(endpoints_, ids_) ==
    /\ box # "aborted"
    /\ \E endpoint \in endpoints_, request_id \in ids_ :
        \/ \E self \in deref :
            LET r == request_handler(self, endpoint, request_id)
            IN  FfiReturn(r.self, [op |-> "msgbus_request_handler", endpoint |-> endpoint,
                                   request_id |-> request_id,
                                   ret |-> callable_or_none(r.ret)])
        \/ FfiAbort("msgbus_request_handler")

MsgbusResponseHandler(ids_) ==
    /\ box # "aborted"
    /\ \E correlation_id \in ids_ :
        \/ \E self \in deref :
            LET r == response_handler(self, correlation_id)
            IN  FfiReturn(r.self, [op |-> "msgbus_response_handler",
                                   correlation_id |-> correlation_id,
                                   ret |-> callable_or_none(r.ret)])
        \/ FfiAbort("msgbus_response_handler")

\* Every sequence of msgbus_* calls on the bus msgbus_new has returned.
NextFfi ==
    \/ MsgbusEndpoints
    \/ MsgbusTopics
    \/ MsgbusHasSubscribers(Patterns)
    \/ MsgbusIsSubscribed({<<"a">>}, Handlers)
    \/ MsgbusIsRegsitered({"e1"})
    \/ MsgbusIsPendingRequest({"u1"})
    \/ MsgbusSubscribe({<<"a">>}, Handlers)
    \/ MsgbusUnsubscribe({<<"a">>}, Handlers)
    \/ MsgbusRegister({"e1"}, Handlers)
    \/ MsgbusDeregister({"e1"})
    \/ MsgbusGetEndpoint({"e1"})
    \/ MsgbusGetMatchingCallables(Patterns)
    \/ MsgbusRequestHandler({"e1"}, {"u1"})
    \/ MsgbusResponseHandler({"u1"})

\* msgbus_new: MessageBus_API(Box::new(MessageBus::new(trader_id, name)))
SpecFfi == Init /\ [][NextFfi]_vars

\* the PyList of the &strs of a bag of topics
PyList_of_topics(ts) ==
    <<"list", [o \in {PyString_new(as_str(t)) : t \in DOMAIN ts} |->
                ts[CHOOSE t \in DOMAIN ts : PyString_new(as_str(t)) = o]]>>

\* C23: msgbus_topics returns the list of MessageBus::topics and msgbus_endpoints
\* the list of MessageBus::endpoints, on the bus the call was made on.
C23_FfiListsAreTheBusLists ==
    /\ call.op = "msgbus_topics" => call.ret = PyList_of_topics(topics(bus))
    /\ call.op = "msgbus_endpoints" => call.ret = PyList_new(endpoints(bus))

\* What does hold of C23: the half on msgbus_endpoints.
MsgbusEndpointsIsEndpoints ==
    call.op = "msgbus_endpoints" => call.ret = PyList_new(endpoints(bus))

\* a change made by one call is seen by the query made next
ChangeObservedByNextCall ==
    /\ (call.op = "msgbus_subscribe" /\ call'.op = "msgbus_has_subscribers"
            /\ call'.pattern = call.topic) => call'.ret = 1
    /\ (call.op = "msgbus_register" /\ call'.op = "msgbus_is_regsitered"
            /\ call'.endpoint = call.endpoint) => call'.ret = 1
    /\ (call.op = "msgbus_request_handler" /\ call.ret # Py_None
            /\ call'.op = "msgbus_is_pending_request"
            /\ call'.request_id = call.request_id) => call'.ret = 1

\* C24: no msgbus_* call destroys the bus it is passed, and a change made by
\* msgbus_subscribe, msgbus_register or msgbus_request_handler is seen by the
\* msgbus_has_subscribers, msgbus_is_regsitered or msgbus_is_pending_request call
\* that follows.
C24_BusOutlivesFfiCalls ==
    [][box' = "live" /\ ChangeObservedByNextCall]_vars

====
